---------------------------- MODULE Spec2Model ----------------------------
(***************************************************************************)
(* CarRaffleOdds scraping pipeline: the persistent scraper service         *)
(* (runWithLock, ensureBrowser), the orchestrator (runAllScrapers,         *)
(* cleanupExpiredRaffles), the persistence layer (persistScrapeResult,     *)
(* persistQuickUpdate, logScrapeRun), the metrics engine                   *)
(* (calculateRaffleMetrics) and the per-site scrape loops.                 *)
(*                                                                         *)
(* Encodings.  Money is in pence.  Percentages are in hundredths of a      *)
(* percent (DECIMAL(5,2) scaled by 100: 100% = 10000).  value_per_pound is *)
(* in hundredths (DECIMAL(10,2)), expected_value in ten-thousandths        *)
(* (DECIMAL(10,4)).  The clock counts ticks of HoursPerTick hours.  A      *)
(* JavaScript null/undefined is NULL.                                      *)
(***************************************************************************)
EXTENDS Integers, Sequences, FiniteSets, TLC

VARIABLES
    store,        \* table raffles: sequence of rows, row id = index
    snapshots,    \* table raffle_snapshots: sequence of rows
    now,          \* wall clock (Date.now()), in ticks
    last,         \* the last call made on the persistence layer or service
    runs,         \* persistScrapeResult calls in progress (stepwise)
    isRunning,    \* scraper-service.ts: let isRunning
    browser,      \* scraper-service.ts: let browser (0 = null)
    launched,     \* number of chromium.launch() calls that succeeded
    connected,    \* browsers whose isConnected() is true
    jobs,         \* runWithLock invocations that took the lock
    runLog,       \* table scrape_logs: sequence of rows
    scr,          \* one scraper.scrape(context) call in progress
    orch          \* one runAllScrapers invocation, source by source

vars == <<store, snapshots, now, last, runs, isRunning, browser, launched,
          connected, jobs, runLog, scr, orch>>

persistVars == <<store, snapshots, now, last>>
raceVars == <<runs>>
scrapeVars == <<scr, orch>>
serviceVars == <<isRunning, browser, launched, connected, jobs, runLog>>

-----------------------------------------------------------------------------
(* Bounds of the model *)

MaxClock == 1          \* the clock stops after this many ticks
MaxResultLen == 2      \* raffles (or updates) in one scrape result
MaxRows == 4           \* rows the raffles table can hold
MaxSnapshots == 2      \* rows the raffle_snapshots table can hold

(* Program constants *)

NULL == -1000000
HoursPerTick == 48
EndingSoonHours == 48

-----------------------------------------------------------------------------
(* JavaScript value helpers *)

\* x || null, !x : null, undefined and 0 are falsy
Falsy(x) == x = NULL \/ x = 0

OrNull(x) == IF Falsy(x) THEN NULL ELSE x

\* a ?? b
Coalesce(a, b) == IF a # NULL THEN a ELSE b

\* Number((n / d).toFixed(k)) on scaled integers: n/d rounded half up
RoundDiv(n, d) == (2 * n + d) \div (2 * d)

-----------------------------------------------------------------------------
(* Titles.  A title is abstracted to the keyword groups it contains and    *)
(* the amounts its "or £X" and "& £X" / "+ £X" conjunctions carry.         *)

TitleBmw == [kw |-> {"car"}, orCash |-> 6000, plusCash |-> 2000]
TitleCash == [kw |-> {"cash"}, orCash |-> NULL, plusCash |-> NULL]
TitleInstant == [kw |-> {"instant", "cash"}, orCash |-> NULL, plusCash |-> NULL]

Titles == {TitleBmw, TitleCash, TitleInstant}

\* a classifier that tests the cash keywords ahead of the vehicle keywords
classifyPrizeTypeCashFirst(title) ==
    IF "instant" \in title.kw THEN "other"
    ELSE IF "cash" \in title.kw THEN "cash"
    ELSE IF "notreal" \notin title.kw /\ "car" \in title.kw THEN "car"
    ELSE IF "notreal" \notin title.kw /\ "motorcycle" \in title.kw THEN "motorcycle"
    ELSE IF "house" \in title.kw THEN "house"
    ELSE IF "watch" \in title.kw THEN "watch"
    ELSE IF "tech" \in title.kw THEN "tech"
    ELSE IF "holiday" \in title.kw THEN "holiday"
    ELSE "other"

\* classifyPrizeType(title): the title as the keyword groups it contains
classifyPrizeType(title) ==
    IF "instant" \in title.kw THEN "other"
    ELSE IF "notreal" \notin title.kw /\ "car" \in title.kw THEN "car"
    ELSE IF "notreal" \notin title.kw /\ "motorcycle" \in title.kw THEN "motorcycle"
    ELSE IF "house" \in title.kw THEN "house"
    ELSE IF "watch" \in title.kw THEN "watch"
    ELSE IF "tech" \in title.kw THEN "tech"
    ELSE IF "holiday" \in title.kw THEN "holiday"
    ELSE IF "cash" \in title.kw THEN "cash"
    ELSE "other"

parseCashFromTitle(title) ==
    [additionalCash |-> title.plusCash, cashAlternative |-> title.orCash]

-----------------------------------------------------------------------------
(* Metrics engine: src/lib/utils.ts *)

\* an odds ratio of zero where the total is unknown
calculateOddsRatioZero(totalTickets) ==
    IF Falsy(totalTickets) \/ totalTickets <= 0 THEN 0 ELSE totalTickets

calculateOddsRatio(totalTickets) ==
    IF Falsy(totalTickets) \/ totalTickets <= 0 THEN NULL ELSE totalTickets

calculateValuePerPound(prizeValue, cashAlternative, ticketPrice) ==
    LET value == IF Falsy(prizeValue) THEN cashAlternative ELSE prizeValue
    IN  IF Falsy(value) \/ Falsy(ticketPrice) \/ ticketPrice <= 0 THEN NULL
        ELSE RoundDiv(value * 100, ticketPrice)

calculateExpectedValue(prizeValue, cashAlternative, totalTickets, ticketPrice) ==
    LET value == IF Falsy(prizeValue) THEN cashAlternative ELSE prizeValue
    IN  IF \/ Falsy(value) \/ Falsy(totalTickets) \/ Falsy(ticketPrice)
           \/ totalTickets <= 0 \/ ticketPrice <= 0
        THEN NULL
        ELSE RoundDiv(value * 10000, totalTickets * ticketPrice)

\* data.endDate and the clock are in ticks; hoursUntilEnd is in hours
calculateRaffleMetrics(data, clock) ==
    LET ticketsRemaining ==
            IF data.totalTickets # NULL /\ data.ticketsSold # NULL
            THEN data.totalTickets - data.ticketsSold ELSE NULL
        percentSold ==
            IF data.totalTickets # NULL /\ data.ticketsSold # NULL
               /\ data.totalTickets > 0
            THEN RoundDiv(data.ticketsSold * 10000, data.totalTickets)
            ELSE NULL
        hoursUntilEnd == (data.endDate - clock) * HoursPerTick
        status ==
            IF percentSold # NULL /\ percentSold >= 10000 THEN "sold_out"
            ELSE IF data.endDate # NULL /\ hoursUntilEnd <= EndingSoonHours
                    /\ hoursUntilEnd > 0
                 THEN "ending_soon"
                 ELSE "active"
    IN  [tickets_remaining |-> ticketsRemaining,
         percent_sold |-> percentSold,
         odds_ratio |-> calculateOddsRatio(data.totalTickets),
         value_per_pound |->
             calculateValuePerPound(data.prizeValue, data.cashAlternative,
                                    data.ticketPrice),
         expected_value |->
             calculateExpectedValue(data.prizeValue, data.cashAlternative,
                                    data.totalTickets, data.ticketPrice),
         status |-> status]

-----------------------------------------------------------------------------
(* Relational store: supabase/migrations/001_initial.sql *)

\* table sites as the migration seeds it: slug -> active flag (the slug
\* stands for the row's id)
SitesTable ==
    [s \in {"dream-car-giveaways", "botb", "rev-comps", "7-days-performance",
            "elite-competitions"} |->
        s \in {"dream-car-giveaways", "botb"}]

SiteSlugs == DOMAIN SitesTable

\* .from('sites').select('id').eq('slug', slug).single()
NoSite == "no-site"

SelectSite(slug) == IF slug \in SiteSlugs THEN slug ELSE NoSite

\* percent_sold DECIMAL(5,2): a value of 1000.00 or more overflows the column
PercentOverflows(p) == p # NULL /\ p >= 100000

\* ids of the rows matching a (site_id, external_id) filter
MatchingIds(st, siteId, externalId) ==
    {i \in 1..Len(st) : st[i].site_id = siteId /\ st[i].external_id = externalId}

\* UNIQUE(site_id, external_id)
UniqueViolated(st, row) == MatchingIds(st, row.site_id, row.external_id) # {}

\* the existence check left out: every raffle is taken for a new one
SelectExistingNever(st, siteId, externalId) == NULL

\* .from('raffles').select('id').eq('site_id', ..).eq('external_id', ..).single():
\* the id of the one matching row, no data (and an error) otherwise
SelectExisting(st, siteId, externalId) ==
    LET ids == MatchingIds(st, siteId, externalId)
    IN  IF Cardinality(ids) = 1 THEN CHOOSE i \in ids : TRUE ELSE NULL

\* an insert into a table without the UNIQUE constraint
InsertRaffleUnchecked(st, row) ==
    IF PercentOverflows(row.percent_sold) \/ Len(st) >= MaxRows
    THEN [error |-> TRUE, store |-> st]
    ELSE [error |-> FALSE, store |-> Append(st, row)]

\* .from('raffles').insert(row): [error, store]
InsertRaffle(st, row) ==
    IF UniqueViolated(st, row) \/ PercentOverflows(row.percent_sold)
       \/ Len(st) >= MaxRows
    THEN [error |-> TRUE, store |-> st]
    ELSE [error |-> FALSE, store |-> Append(st, row)]

\* the columns an update statement sets on one row
ApplyColumns(old, cols) ==
    [f \in DOMAIN old |-> IF f \in DOMAIN cols THEN cols[f] ELSE old[f]]

\* .from('raffles').update(cols) on the rows with the given ids: [error, store]
UpdateRaffles(st, ids, cols) ==
    IF "percent_sold" \in DOMAIN cols /\ PercentOverflows(cols.percent_sold)
       /\ ids # {}
    THEN [error |-> TRUE, store |-> st]
    ELSE [error |-> FALSE,
          store |-> [i \in 1..Len(st) |->
                        IF i \in ids THEN ApplyColumns(st[i], cols) ELSE st[i]]]

-----------------------------------------------------------------------------
(* Persistence layer: src/scrapers/base.ts *)

\* one iteration of the loop of persistScrapeResult up to the row literal
SkipsFreeEntry(raffle) == raffle.ticketPrice # NULL /\ raffle.ticketPrice <= 0

\* The row literal.  The columns that are plain copies of scraped fields
\* (car_make .. car_variant, image_url, source_url, draw_type) are represented
\* by title; car_category and last_scraped_at are not modelled.
BuildRow(siteId, raffle, clock) ==
    LET titleCash == parseCashFromTitle(raffle.title)
        cashAlternative ==
            Coalesce(raffle.cashAlternative, titleCash.cashAlternative)
        additionalCash ==
            Coalesce(raffle.additionalCash, titleCash.additionalCash)
        metrics ==
            calculateRaffleMetrics(
                [prizeValue |-> raffle.prizeValue,
                 cashAlternative |-> cashAlternative,
                 totalTickets |-> raffle.totalTickets,
                 ticketPrice |-> raffle.ticketPrice,
                 ticketsSold |-> raffle.ticketsSold,
                 endDate |-> raffle.endDate], clock)
    IN  [site_id |-> siteId,
         external_id |-> raffle.externalId,
         title |-> raffle.title,
         prize_type |-> classifyPrizeType(raffle.title),
         prize_value |-> OrNull(raffle.prizeValue),
         cash_alternative |-> cashAlternative,
         additional_cash |-> additionalCash,
         ticket_price |-> OrNull(raffle.ticketPrice),
         total_tickets |-> OrNull(raffle.totalTickets),
         tickets_sold |-> OrNull(raffle.ticketsSold),
         tickets_remaining |-> metrics.tickets_remaining,
         percent_sold |-> Coalesce(raffle.percentSold, metrics.percent_sold),
         odds_ratio |-> metrics.odds_ratio,
         value_per_pound |-> metrics.value_per_pound,
         expected_value |-> metrics.expected_value,
         end_date |-> raffle.endDate,
         status |-> metrics.status]

\* the upsert of one raffle: existence check, then update or insert
UpsertRaffle(acc, siteId, raffle, clock) ==
    IF SkipsFreeEntry(raffle) THEN acc
    ELSE
        LET row == BuildRow(siteId, raffle, clock)
            existing == SelectExisting(acc.store, siteId, raffle.externalId)
        IN  IF existing # NULL
            THEN LET w == UpdateRaffles(acc.store, {existing}, row)
                 IN  [store |-> w.store,
                      itemsNew |-> acc.itemsNew,
                      itemsUpdated |->
                          IF w.error THEN acc.itemsUpdated
                          ELSE acc.itemsUpdated + 1]
            ELSE LET w == InsertRaffle(acc.store, row)
                 IN  [store |-> w.store,
                      itemsNew |->
                          IF w.error THEN acc.itemsNew ELSE acc.itemsNew + 1,
                      itemsUpdated |-> acc.itemsUpdated]

RECURSIVE UpsertAll(_, _, _, _)
UpsertAll(acc, siteId, raffles, clock) ==
    IF raffles = <<>> THEN acc
    ELSE UpsertAll(UpsertRaffle(acc, siteId, Head(raffles), clock),
                   siteId, Tail(raffles), clock)

\* persistScrapeResult(result, supabase): [threw, store, itemsNew, itemsUpdated]
persistScrapeResult(st, result, clock) ==
    LET site == SelectSite(result.siteSlug)
    IN  IF site = NoSite
        THEN [threw |-> TRUE, store |-> st, itemsNew |-> 0, itemsUpdated |-> 0]
        ELSE LET r == UpsertAll([store |-> st, itemsNew |-> 0,
                                 itemsUpdated |-> 0],
                                site, result.raffles, clock)
             IN  [threw |-> FALSE, store |-> r.store, itemsNew |-> r.itemsNew,
                  itemsUpdated |-> r.itemsUpdated]

\* an update that carries no status (update.status is undefined)
NoStatus == ""

\* the columns a quick update would set if it also reset the sold count
QuickColumnsResetsSold(update, clock) ==
    [percent_sold |-> update.percentSold, tickets_sold |-> NULL]

\* the columns one quick update sets (updateData)
QuickColumns(update, clock) ==
    LET c0 == [f \in {} |-> NULL]    \* last_scraped_at is not modelled
        c1 == IF update.percentSold # NULL
              THEN c0 @@ [percent_sold |-> update.percentSold] ELSE c0
        c2 == IF update.ticketPrice # NULL
              THEN c1 @@ [ticket_price |-> update.ticketPrice] ELSE c1
    IN  IF update.status # NoStatus THEN c2 @@ [status |-> update.status]
        ELSE c2

RECURSIVE QuickAll(_, _, _, _)
QuickAll(acc, siteId, updates, clock) ==
    IF updates = <<>> THEN acc
    ELSE LET u == Head(updates)
             w == UpdateRaffles(acc.store,
                                MatchingIds(acc.store, siteId, u.externalId),
                                QuickColumns(u, clock))
         IN  QuickAll([store |-> w.store,
                       updated |-> IF w.error THEN acc.updated
                                   ELSE acc.updated + 1],
                      siteId, Tail(updates), clock)

\* persistQuickUpdate(result, supabase): [store, updated]
persistQuickUpdate(st, result, clock) ==
    LET site == SelectSite(result.siteSlug)
    IN  IF site = NoSite THEN [store |-> st, updated |-> 0]
        ELSE QuickAll([store |-> st, updated |-> 0], site, result.updates,
                      clock)

\* logScrapeRun(siteSlug, result, supabase): the scrape_logs table afterwards
logScrapeRun(log, siteSlug, entry) ==
    IF SelectSite(siteSlug) = NoSite THEN log
    ELSE Append(log, [site_id |-> SelectSite(siteSlug)] @@ entry)

\* an update statement without the status filter
MarkDrawnAnyStatus(st, clock) ==
    [i \in 1..Len(st) |->
        IF st[i].end_date # NULL /\ st[i].end_date < clock
        THEN [st[i] EXCEPT !.status = "drawn"] ELSE st[i]]

\* cleanupExpiredRaffles, first statement: mark past-end-date raffles drawn
MarkDrawn(st, clock) ==
    [i \in 1..Len(st) |->
        IF st[i].end_date # NULL /\ st[i].end_date < clock
           /\ st[i].status \in {"active", "ending_soon"}
        THEN [st[i] EXCEPT !.status = "drawn"] ELSE st[i]]

\* cleanupExpiredRaffles, second statement: one snapshot per active raffle
RECURSIVE SnapshotRows(_, _)
SnapshotRows(st, i) ==
    IF i > Len(st) THEN <<>>
    ELSE (IF st[i].status \in {"active", "ending_soon"}
          THEN <<[raffle_id |-> i, tickets_sold |-> st[i].tickets_sold,
                  percent_sold |-> st[i].percent_sold,
                  ticket_price |-> st[i].ticket_price]>>
          ELSE <<>>) \o SnapshotRows(st, i + 1)


-----------------------------------------------------------------------------
(* Inputs of the persistence layer *)

ExtIds == {"a", "b"}

\* a ScrapedRaffle
Raffle(e, t, price, total, sold, pct, end) ==
    [externalId |-> e, title |-> t, prizeValue |-> NULL,
     cashAlternative |-> NULL, additionalCash |-> NULL, ticketPrice |-> price,
     totalTickets |-> total, ticketsSold |-> sold, percentSold |-> pct,
     endDate |-> end]

RaffleA1 == Raffle("a", TitleBmw, 150, 100, 40, NULL, 2)      \* 40 of 100 sold
RaffleA2 == Raffle("a", TitleBmw, 150, 100, 150, NULL, 1)     \* oversold
RaffleB1 == Raffle("b", TitleCash, NULL, NULL, NULL, 10000, NULL) \* no price
RaffleB2 == Raffle("b", TitleCash, 0, NULL, NULL, 4000, 1)    \* free entry
RaffleB3 == Raffle("b", TitleInstant, 50, 10, 100, NULL, 1)   \* 1000% sold

SampleRaffles == {RaffleA1, RaffleA2, RaffleB1, RaffleB2, RaffleB3}

RECURSIVE SeqsUpTo(_, _)
SeqsUpTo(S, n) ==
    IF n = 0 THEN {<<>>}
    ELSE LET shorter == SeqsUpTo(S, n - 1)
         IN  shorter \cup {Append(q, x) : q \in shorter, x \in S}

\* Results for three slugs: every batch for the first site, one-raffle
\* batches for a second site, and a slug the sites table does not hold.
ScraperResults ==
    {[siteSlug |-> "dream-car-giveaways", raffles |-> r] :
        r \in SeqsUpTo(SampleRaffles, MaxResultLen)}
    \cup {[siteSlug |-> s, raffles |-> <<RaffleA1>>] :
        s \in {"elite-competitions", "lucky-day"}}

UpdateA1 ==
    [externalId |-> "a", percentSold |-> 10000, ticketPrice |-> 150,
     status |-> NoStatus]
UpdateA2 ==
    [externalId |-> "a", percentSold |-> NULL, ticketPrice |-> 0,
     status |-> NoStatus]
UpdateB1 ==
    [externalId |-> "b", percentSold |-> 4000, ticketPrice |-> NULL,
     status |-> NoStatus]
UpdateB2 ==
    [externalId |-> "b", percentSold |-> 10000, ticketPrice |-> NULL,
     status |-> "sold_out"]

SampleUpdates == {UpdateA1, UpdateA2, UpdateB1}

QuickUpdateResults ==
    {[siteSlug |-> "dream-car-giveaways", updates |-> u] :
        u \in SeqsUpTo(SampleUpdates, MaxResultLen) \ {<<>>}}
    \cup {[siteSlug |-> "lucky-day", updates |-> <<UpdateA1>>],
          [siteSlug |-> "dream-car-giveaways", updates |-> <<UpdateB2>>]}

-----------------------------------------------------------------------------
(* Persistence calls one after another: SpecPersist *)

NoCall == [op |-> "none"]

PersistFull(result) ==
    LET r == persistScrapeResult(store, result, now)
    IN  /\ store' = r.store
        /\ last' = [op |-> "full"]
        /\ UNCHANGED <<snapshots, now, raceVars, serviceVars, scrapeVars>>

PersistQuick(result) ==
    LET r == persistQuickUpdate(store, result, now)
    IN  /\ store' = r.store
        /\ last' = [op |-> "quick"]
        /\ UNCHANGED <<snapshots, now, raceVars, serviceVars, scrapeVars>>

Tick ==
    /\ now < MaxClock
    /\ now' = now + 1
    /\ last' = NoCall
    /\ UNCHANGED <<store, snapshots, raceVars, serviceVars, scrapeVars>>


NoScrape == [pc |-> "idle"]

NoInvocation == [pc |-> "idle"]

InitService ==
    /\ isRunning = FALSE
    /\ browser = 1
    /\ launched = 1
    /\ connected = {1}
    /\ jobs = <<>>
    /\ runLog = <<>>

InitStore ==
    /\ store = <<>>
    /\ snapshots = <<>>
    /\ now = 0
    /\ last = NoCall

InitPersist ==
    /\ InitStore
    /\ InitService
    /\ runs = <<>>
    /\ scr = NoScrape
    /\ orch = NoInvocation

NextPersist ==
    \/ \E result \in ScraperResults : PersistFull(result)
    \/ \E result \in QuickUpdateResults : PersistQuick(result)
    \/ Tick

SpecPersist == InitPersist /\ [][NextPersist]_vars


-----------------------------------------------------------------------------
(* Overlapping persistScrapeResult calls, one database round trip per      *)
(* step: SpecRace                                                          *)

MaxRuns == 2           \* persistScrapeResult calls in one behaviour

\* results of scrapes that overlap: the same raffles, in either order, a free
\* entry among them, a raffle whose row the table rejects ahead of one it
\* accepts, and another site's raffle with the same identifier
RaceResults ==
    {[siteSlug |-> "dream-car-giveaways", raffles |-> r] :
        r \in {<<RaffleA1>>, <<RaffleB1>>, <<RaffleA1, RaffleB1>>,
               <<RaffleB1, RaffleA1>>, <<RaffleA1, RaffleA1>>,
               <<RaffleB2, RaffleA1>>, <<RaffleB3, RaffleA1>>}}
    \cup {[siteSlug |-> "elite-competitions", raffles |-> <<RaffleA1>>]}

RunDone == [pc |-> "done"]

\* the row variable of the loop before the row literal is built
NoRow == [site_id |-> NoSite]

\* the call starts: the site lookup, then the loop
StartRun(result) ==
    /\ Len(runs) < MaxRuns
    /\ runs' = Append(runs,
                 IF SelectSite(result.siteSlug) = NoSite THEN RunDone
                 ELSE [pc |-> "check", site |-> SelectSite(result.siteSlug),
                       raffles |-> result.raffles, existing |-> NULL,
                       row |-> NoRow, itemsNew |-> 0, itemsUpdated |-> 0,
                       failed |-> 0])
    /\ UNCHANGED <<persistVars, serviceVars, scrapeVars>>

\* the loop head up to the existence check (or the return, after the loop)
CheckExists(p) ==
    LET run == runs[p]
        raffle == Head(run.raffles)
    IN  /\ run.pc = "check"
        /\ runs' = [runs EXCEPT ![p] =
              IF run.raffles = <<>> THEN RunDone
              ELSE IF SkipsFreeEntry(raffle)
              THEN [run EXCEPT !.raffles = Tail(run.raffles)]
              ELSE [run EXCEPT
                      !.pc = "write",
                      !.row = BuildRow(run.site, raffle, now),
                      !.existing = SelectExisting(store, run.site,
                                                  raffle.externalId)]]
        /\ UNCHANGED <<persistVars, serviceVars, scrapeVars>>

\* a loop that gives up the batch at the first rejected write
WriteRowAbortsOnError(p) ==
    LET run == runs[p]
        w == IF run.existing # NULL
             THEN UpdateRaffles(store, {run.existing}, run.row)
             ELSE InsertRaffle(store, run.row)
    IN  /\ run.pc = "write"
        /\ store' = w.store
        /\ runs' = [runs EXCEPT ![p] =
              [run EXCEPT
                 !.pc = "check",
                 !.raffles = IF w.error THEN <<>> ELSE Tail(run.raffles),
                 !.existing = NULL,
                 !.row = NoRow,
                 !.itemsNew = IF run.existing = NULL /\ ~w.error
                              THEN @ + 1 ELSE @,
                 !.itemsUpdated = IF run.existing # NULL /\ ~w.error
                                  THEN @ + 1 ELSE @,
                 !.failed = IF w.error THEN @ + 1 ELSE @]]
        /\ UNCHANGED <<snapshots, now, last, serviceVars, scrapeVars>>

\* the update or the insert the check led to
WriteRow(p) ==
    LET run == runs[p]
        w == IF run.existing # NULL
             THEN UpdateRaffles(store, {run.existing}, run.row)
             ELSE InsertRaffle(store, run.row)
    IN  /\ run.pc = "write"
        /\ store' = w.store
        /\ runs' = [runs EXCEPT ![p] =
              [run EXCEPT
                 !.pc = "check",
                 !.raffles = Tail(run.raffles),
                 !.existing = NULL,
                 !.row = NoRow,
                 !.itemsNew = IF run.existing = NULL /\ ~w.error
                              THEN @ + 1 ELSE @,
                 !.itemsUpdated = IF run.existing # NULL /\ ~w.error
                                  THEN @ + 1 ELSE @,
                 !.failed = IF w.error THEN @ + 1 ELSE @]]
        /\ UNCHANGED <<snapshots, now, last, serviceVars, scrapeVars>>

InitRace == InitPersist

NextRace ==
    \/ \E result \in RaceResults : StartRun(result)
    \/ \E p \in 1..Len(runs) : CheckExists(p)
    \/ \E p \in 1..Len(runs) : WriteRow(p)

SpecRace == InitRace /\ [][NextRace]_vars

-----------------------------------------------------------------------------
(* Properties of the persistence layer *)

\* C4: after any sequence of persistFull and persistQuick calls every row of
\* the raffles table has a strictly positive ticket price: none is zero,
\* negative or missing.
C4_TicketPricePositive ==
    \A i \in 1..Len(store) :
        store[i].ticket_price # NULL /\ store[i].ticket_price > 0

\* C5: persistFull run twice in succession with the same scrape result
\* inserts nothing the second time, counts every raffle the first run wrote
\* as updated, and leaves the rows (classification and derived metrics
\* included) as the first run left them.
C5_PersistFullIdempotent ==
    \A result \in ScraperResults :
        LET r1 == persistScrapeResult(store, result, now)
            r2 == persistScrapeResult(r1.store, result, now)
        IN  /\ r2.threw = r1.threw
            /\ r2.itemsNew = 0
            /\ r2.itemsUpdated = r1.itemsNew + r1.itemsUpdated
            /\ r2.store = r1.store

\* a persistFull call has stored a result of two different raffles: run
\* again now, the same result inserts nothing, updates both and leaves the
\* store as it is
C5_Witness ==
    /\ last.op = "full"
    /\ \E result \in ScraperResults :
          LET r == persistScrapeResult(store, result, now)
          IN  /\ Len(result.raffles) >= 2
              /\ result.raffles[1].externalId # result.raffles[2].externalId
              /\ r.store = store
              /\ r.itemsNew = 0
              /\ r.itemsUpdated = Len(result.raffles)

\* C6: under any interleaving of persistFull calls the raffles table never
\* holds two rows with the same (site, external identifier) pair.
C6_KeyUnique ==
    \A i, j \in 1..Len(store) :
        (store[i].site_id = store[j].site_id
            /\ store[i].external_id = store[j].external_id) => i = j

\* two overlapping calls both found the key absent, one inserted the row and
\* the other's insert was rejected
C6_Witness ==
    \E p, q \in 1..Len(runs) :
        /\ p # q
        /\ runs[p].pc # "done" /\ runs[q].pc # "done"
        /\ runs[p].failed >= 1
        /\ runs[q].itemsNew >= 1
        /\ runs[p].site = runs[q].site

\* the columns persistQuickUpdate may set (last_scraped_at is not modelled)
QuickFields == {"percent_sold", "ticket_price", "status"}

\* the rows a quick update result matches by (site, external identifier)
QuickMatches(st, result) ==
    {i \in 1..Len(st) :
        /\ st[i].site_id = SelectSite(result.siteSlug)
        /\ \E k \in 1..Len(result.updates) :
              st[i].external_id = result.updates[k].externalId}

\* C15: persistQuick never inserts a row.  Run on any store the program can
\* reach, with any result, it leaves the number of rows as it is, leaves
\* every row its updates do not match untouched, and on a matching row
\* changes nothing but percent sold, ticket price and status.
C15_PersistQuickNarrow ==
    \A result \in QuickUpdateResults :
        LET r == persistQuickUpdate(store, result, now)
        IN  /\ Len(r.store) = Len(store)
            /\ \A i \in 1..Len(store) :
                  /\ i \notin QuickMatches(store, result) =>
                        r.store[i] = store[i]
                  /\ \A f \in DOMAIN store[i] \ QuickFields :
                        r.store[i][f] = store[i][f]

\* a quick update has raised the percent sold of a row a full scrape wrote,
\* and the ticket counts the full scrape stored are still there, while a
\* second row was left as it was
C15_Witness ==
    /\ last.op = "quick"
    /\ \E i, k \in 1..Len(store) :
          /\ store[i].external_id = "a" /\ store[i].percent_sold = 10000
          /\ store[i].tickets_sold = 40 /\ store[i].total_tickets = 100
          /\ store[i].tickets_remaining = 60
          /\ store[k].external_id = "b" /\ store[k].percent_sold = 10000
          /\ store[k].status = "active"

\* C16: in persistFull a rejected insert or update does not stop the batch.
\* Every write, rejected or not, is followed by the loop head with all the
\* later records still to come; a rejected write changes no row and no
\* count, an insert that succeeds adds one row and one to the new count, an
\* update that succeeds adds one to the updated count.
C16_RejectedWriteContinues ==
    [][\A p \in DOMAIN runs :
          (runs[p].pc = "write") =>
              LET before == runs[p]
                  after == runs'[p]
                  written == after.pc # "write"
                  rejected == after.failed = before.failed + 1
              IN  written =>
                    /\ after.pc = "check"
                    /\ after.raffles = Tail(before.raffles)
                    /\ after.failed \in {before.failed, before.failed + 1}
                    /\ rejected =>
                          /\ store' = store
                          /\ after.itemsNew = before.itemsNew
                          /\ after.itemsUpdated = before.itemsUpdated
                    /\ (~rejected /\ before.existing = NULL) =>
                          /\ Len(store') = Len(store) + 1
                          /\ store'[Len(store')] = before.row
                          /\ after.itemsNew = before.itemsNew + 1
                          /\ after.itemsUpdated = before.itemsUpdated
                    /\ (~rejected /\ before.existing # NULL) =>
                          /\ Len(store') = Len(store)
                          /\ store'[before.existing] = before.row
                          /\ after.itemsNew = before.itemsNew
                          /\ after.itemsUpdated = before.itemsUpdated + 1]_vars

\* a call whose first record was rejected by the table went on to its
\* second record and inserted it: one failure, one new row, batch finished
C16_Witness ==
    \E p \in 1..Len(runs) :
        /\ runs[p].pc = "check" /\ runs[p].raffles = <<>>
        /\ runs[p].failed = 1 /\ runs[p].itemsNew = 1
        /\ runs[p].itemsUpdated = 0
        /\ \A i \in 1..Len(store) : store[i].external_id = "a"
        /\ Len(runs) = 1

\* C14: after any sequence of persistFull and persistQuick calls, every row
\* whose percent sold is present has it between 0 and 100, whether it was
\* reported by the source or computed from tickets sold and total tickets.
C14_PercentSoldInRange ==
    \A i \in 1..Len(store) :
        store[i].percent_sold # NULL =>
            (0 <= store[i].percent_sold /\ store[i].percent_sold <= 10000)

\* C17: the status a full scrape derives for a record is sold_out whenever
\* the record's percent sold is 100 or more, whatever its end date; otherwise
\* ending_soon exactly when its end date is in the future and at most 48
\* hours ahead; otherwise active.  It is never drawn or cancelled.  Every row
\* a persistFull call writes carries that status.
C17_StatusDerivation ==
    [][last'.op = "full" =>
          \A i \in 1..Len(store') :
              (i > Len(store) \/ store'[i] # store[i]) =>
                  LET row == store'[i]
                      hours == (row.end_date - now) * HoursPerTick
                  IN  row.status =
                        IF row.percent_sold # NULL /\ row.percent_sold >= 10000
                        THEN "sold_out"
                        ELSE IF row.end_date # NULL /\ hours > 0
                                /\ hours <= EndingSoonHours
                             THEN "ending_soon"
                             ELSE "active"]_vars

\* C26: after any sequence of persistFull and persistQuick calls, every
\* stored row with percent sold of 100 or more that is not drawn has status
\* sold_out, whether the percentage came from the source without ticket
\* counts or from a quick update of an existing row.
C26_FullySoldIsSoldOut ==
    \A i \in DOMAIN store :
        (/\ store[i].percent_sold # NULL
         /\ store[i].percent_sold >= 10000
         /\ store[i].status # "drawn") => store[i].status = "sold_out"

-----------------------------------------------------------------------------
(* Scraper service (scripts/scraper-service.ts) and orchestrator           *)
(* (runAllScrapers, cleanupExpiredRaffles): Spec                           *)
(*                                                                         *)
(* One action is one turn of the event loop: a callback runs up to its     *)
(* next await on I/O or on a timer, the promise reactions it settles       *)
(* included.                                                               *)

MaxJobs == 2           \* runWithLock invocations that take the lock
MaxBrowsers == 2       \* chromium.launch() calls that succeed

FullConcurrency == 3
QuickConcurrency == 2

JobNames == {"Full Scrape", "Quick Update", "Daily Cleanup"}

\* getAllScrapers(): the site slugs of the registered scrapers, in order
Registry == <<"dream-car-giveaways", "7-days-performance">>

RegistrySlugs == {Registry[i] : i \in 1..Len(Registry)}

Concurrency(jobName) ==
    IF jobName = "Full Scrape" THEN FullConcurrency ELSE QuickConcurrency

\* An error message, as the sequence of its phrases.
TimeoutMessage(jobName) == <<jobName, "timed out", "after">>
LaunchMessage == <<"browserType.launch", "Failed to launch">>
ContextMessage == <<"Target page, context or browser has been closed">>

\* msg.includes(phrase)
Includes(msg, phrase) == \E i \in 1..Len(msg) : msg[i] = phrase

\* a catch block that takes every error for a timeout
KillsBrowserAlways(msg) == TRUE

\* runWithLock, catch block: if (msg.includes('timed out'))
KillsBrowser(msg) == Includes(msg, "timed out")

\* a catch block with no finally after it: an error that does not lead to
\* browser.close() leaves the lock held
CatchWithoutFinally(job, msg) ==
    IF KillsBrowser(msg) /\ browser # 0
    THEN [job EXCEPT !.rw = "closing", !.closed = browser]
    ELSE [job EXCEPT !.rw = "failed"]

\* runWithLock from the rejection of the race to the await on browser.close()
\* or, through finally, to the release of the lock
Catch(job, msg) ==
    IF KillsBrowser(msg) /\ browser # 0
    THEN [job EXCEPT !.rw = "closing", !.closed = browser]
    ELSE [job EXCEPT !.rw = "ended"]

\* fn() rejects: the race rejects with the body's error unless it is settled
BodyThrows(job, msg) ==
    IF job.pc = "threw" THEN job
    ELSE IF job.rw = "racing" THEN Catch([job EXCEPT !.pc = "threw"], msg)
    ELSE [job EXCEPT !.pc = "threw"]

\* fn() resolves: the race resolves, finally releases the lock
BodyReturns(job) ==
    [job EXCEPT !.pc = "returned",
                !.rw = IF @ = "racing" THEN "ended" ELSE @]

InFlight(job) ==
    {s \in RegistrySlugs : job.srcs[s] \in {"creating", "scraping", "closing"}}

WaitingSeq(job) ==
    SelectSeq(Registry, LAMBDA s : job.srcs[s] = "waiting")

\* runAllScrapers, loop head: the next batch.map(...) calls createContext
StartBatch(job) ==
    LET w == WaitingSeq(job)
        c == Concurrency(job.kind)
        n == IF Len(w) < c THEN Len(w) ELSE c
        batch == {w[i] : i \in 1..n}
    IN  [job EXCEPT !.srcs = [s \in RegistrySlugs |->
                                 IF s \in batch THEN "creating" ELSE @[s]]]

\* a scraper's async callback has resolved: Promise.all resolves when the
\* batch is done, the loop goes on to the next batch or the body returns
Advance(job) ==
    IF job.pc # "batch" \/ InFlight(job) # {} THEN job
    ELSE IF WaitingSeq(job) = <<>> THEN BodyReturns(job)
    ELSE StartBatch(job)

\* the jobs table and the lock after a step of job j
SetJob(j, job) ==
    /\ jobs' = [jobs EXCEPT ![j] = job]
    /\ isRunning' = IF jobs[j].rw # "ended" THEN job.rw # "ended"
                    ELSE isRunning

\* an ensureBrowser that launches a browser on every call
StartBodyAlwaysLaunches(jobName) ==
    LET job == [kind |-> jobName, rw |-> "racing", timedOut |-> FALSE,
                closed |-> 0, pc |-> "marking", b |-> 0,
                srcs |-> [s \in RegistrySlugs |-> "idle"], pending |-> {}]
    IN  IF jobName = "Daily Cleanup" THEN job
        ELSE [job EXCEPT !.pc = "launching"]

\* ensureBrowser up to the await on chromium.launch, then fn() up to its
\* first await
StartBody(jobName) ==
    LET job == [kind |-> jobName, rw |-> "racing", timedOut |-> FALSE,
                closed |-> 0, pc |-> "marking", b |-> 0,
                srcs |-> [s \in RegistrySlugs |-> "idle"], pending |-> {}]
    IN  IF jobName = "Daily Cleanup" THEN job
        ELSE IF browser # 0 /\ browser \in connected
             THEN [job EXCEPT !.pc = "selecting", !.b = browser]
             ELSE [job EXCEPT !.pc = "launching"]

Skipped == [op |-> "skipped"]

\* a skip that runs the finally block
SkipReturnThroughFinally ==
    /\ last' = Skipped
    /\ isRunning' = FALSE
    /\ UNCHANGED <<store, snapshots, now, raceVars, scrapeVars, browser,
                   launched, connected, jobs, runLog>>

\* runWithLock: if (isRunning) { console.log(...); return; }
SkipReturn ==
    /\ last' = Skipped
    /\ UNCHANGED <<store, snapshots, now, raceVars, scrapeVars, serviceVars>>

\* a cron trigger (or the start-up scrape) calls runWithLock(jobName, fn)
runWithLock(jobName) ==
    IF isRunning THEN SkipReturn
    ELSE /\ Len(jobs) < MaxJobs
         /\ isRunning' = TRUE
         /\ jobs' = Append(jobs, StartBody(jobName))
         /\ last' = NoCall
         /\ UNCHANGED <<store, snapshots, now, raceVars, scrapeVars, browser,
                        launched, connected, runLog>>

\* ensureBrowser: chromium.launch() resolves or rejects
Launch(j, ok) ==
    LET job == jobs[j]
    IN  /\ job.pc = "launching"
        /\ IF ok
           THEN /\ launched < MaxBrowsers
                /\ launched' = launched + 1
                /\ browser' = launched + 1
                /\ connected' = connected \cup {launched + 1}
                /\ SetJob(j, [job EXCEPT !.pc = "selecting",
                                         !.b = launched + 1])
           ELSE /\ SetJob(j, BodyThrows(job, LaunchMessage))
                /\ UNCHANGED <<browser, launched, connected>>
        /\ last' = NoCall
        /\ UNCHANGED <<store, snapshots, now, raceVars, scrapeVars, runLog>>

\* runAllScrapers: registry, active sites, optional site scope
SelectScrapers(siteSlug) ==
    {s \in RegistrySlugs :
        /\ s \in SiteSlugs /\ SitesTable[s]
        /\ (siteSlug # NoSite => s = siteSlug)}

\* runAllScrapers from the answer of the sites query to the first batch
Select(j) ==
    LET job == jobs[j]
        scrapers == SelectScrapers(NoSite)
        chosen == [job EXCEPT !.pc = "batch",
                      !.srcs = [s \in RegistrySlugs |->
                                   IF s \in scrapers THEN "waiting" ELSE "idle"]]
    IN  /\ job.pc = "selecting"
        /\ SetJob(j, IF scrapers = {} THEN BodyReturns(job)
                     ELSE StartBatch(chosen))
        /\ last' = NoCall
        /\ UNCHANGED <<store, snapshots, now, raceVars, scrapeVars, browser,
                       launched, connected, runLog>>

\* createContext(browser) resolves, or rejects on a browser that is gone:
\* the rejection is outside the scraper's try and rejects Promise.all
CreateContext(j, s) ==
    LET job == jobs[j]
    IN  /\ job.srcs[s] = "creating"
        /\ SetJob(j, IF job.b \in connected
                     THEN [job EXCEPT !.srcs[s] = "scraping"]
                     ELSE BodyThrows([job EXCEPT !.srcs[s] = "rejected"],
                                     ContextMessage))
        /\ last' = NoCall
        /\ UNCHANGED <<store, snapshots, now, raceVars, scrapeVars, browser,
                       launched, connected, runLog>>

\* what the scrapers of the service find: one raffle per site, and the
\* listing card of the same raffle
ServiceRaffle == Raffle("a", TitleBmw, 150, 100, 40, NULL, 0)
ServiceUpdate ==
    [externalId |-> "a", percentSold |-> 4000, ticketPrice |-> 150,
     status |-> NoStatus]

\* Error messages, by what they name: the listing page (the outer catch
\* block of scrape / quickUpdate), an item (the catch block of the loop), an
\* exception that escaped the scraper; error_message is null without one.
ListingError == "listing"
ItemError == "item"
ThrownError == "exception"
SiteNotFound == "Site not found"
NoRafflesFound == "No raffles found"
NoMessage == "null"

\* how scraper.scrape(context) / scraper.quickUpdate(context) ends: it throws,
\* or it returns items (raffles or updates) and errors; a listing page that
\* cannot be loaded gives no items and the one error of the outer catch
ScrapeOutcomes ==
    {[threw |-> FALSE, items |-> n, errors |-> e,
      message |-> IF e = 0 THEN NoMessage ELSE ItemError] :
        n \in {0, 1}, e \in {0, 1}}
    \cup {[threw |-> FALSE, items |-> 0, errors |-> 1,
           message |-> ListingError]}
    \cup {[threw |-> TRUE, items |-> 0, errors |-> 1, message |-> ThrownError]}

\* run is the runWithLock invocation the row belongs to (its time window)
LogEntry(j, status, found, message) ==
    [run |-> j, status |-> status, items_found |-> found,
     error_message |-> message]

\* runAllScrapers, the try block of one scraper in full mode and its catch:
\* [store, log]
RunFull(j, s, out) ==
    LET r == persistScrapeResult(store,
                 [siteSlug |-> s, raffles |-> <<ServiceRaffle>>], now)
    IN  IF out.threw
        THEN [store |-> store,
              log |-> logScrapeRun(runLog, s,
                        LogEntry(j, "failed", 0, out.message))]
        ELSE IF out.items > 0
        THEN IF r.threw
             THEN [store |-> r.store,
                   log |-> logScrapeRun(runLog, s,
                             LogEntry(j, "failed", 0, SiteNotFound))]
             ELSE [store |-> r.store,
                   log |-> logScrapeRun(runLog, s,
                             LogEntry(j, IF out.errors > 0 THEN "partial"
                                         ELSE "success", out.items,
                                      out.message))]
        ELSE [store |-> store,
              log |-> logScrapeRun(runLog, s,
                        LogEntry(j, "failed", 0,
                                 IF out.errors > 0 THEN out.message
                                 ELSE NoRafflesFound))]

\* the same in quick mode
RunQuick(j, s, out) ==
    LET r == persistQuickUpdate(store,
                 [siteSlug |-> s, updates |-> <<ServiceUpdate>>], now)
    IN  IF out.threw
        THEN [store |-> store,
              log |-> logScrapeRun(runLog, s,
                        LogEntry(j, "failed", 0, out.message))]
        ELSE [store |-> IF out.items > 0 THEN r.store ELSE store,
              log |-> logScrapeRun(runLog, s,
                        LogEntry(j, IF out.errors > 0 THEN "partial"
                                    ELSE "success", out.items, out.message))]

\* one scraper from the open context to the await on context.close()
RunScraper(j, s, out) ==
    LET job == jobs[j]
        r == IF job.kind = "Quick Update" THEN RunQuick(j, s, out)
             ELSE RunFull(j, s, out)
    IN  /\ job.srcs[s] = "scraping"
        /\ store' = r.store
        /\ runLog' = r.log
        /\ SetJob(j, [job EXCEPT !.srcs[s] = "closing"])
        /\ last' = NoCall
        /\ UNCHANGED <<snapshots, now, raceVars, scrapeVars, browser,
                       launched, connected>>

\* finally { await context.close() } resolves
CloseContext(j, s) ==
    LET job == jobs[j]
    IN  /\ job.srcs[s] = "closing"
        /\ SetJob(j, Advance([job EXCEPT !.srcs[s] = "done"]))
        /\ last' = NoCall
        /\ UNCHANGED <<store, snapshots, now, raceVars, scrapeVars, browser,
                       launched, connected, runLog>>

\* cleanupExpiredRaffles: the update statement
MarkStep(j) ==
    LET job == jobs[j]
    IN  /\ job.pc = "marking"
        /\ store' = MarkDrawn(store, now)
        /\ SetJob(j, [job EXCEPT !.pc = "snapshotting"])
        /\ last' = NoCall
        /\ UNCHANGED <<snapshots, now, raceVars, scrapeVars, browser,
                       launched, connected, runLog>>

\* cleanupExpiredRaffles: the select of the active raffles and the insert of
\* their snapshots
SnapshotStep(j) ==
    LET job == jobs[j]
        taken == SnapshotRows(store, 1)
    IN  /\ job.pc = "snapshotting"
        /\ snapshots' = IF Len(snapshots) + Len(taken) <= MaxSnapshots
                        THEN snapshots \o taken ELSE snapshots
        /\ SetJob(j, BodyReturns(job))
        /\ last' = NoCall
        /\ UNCHANGED <<store, now, raceVars, scrapeVars, browser, launched,
                       connected, runLog>>

\* the selected sources whose run has not been logged yet
Unfinished(job) ==
    IF job.kind = "Daily Cleanup" \/ job.pc \in {"returned", "threw"} THEN {}
    ELSE {s \in SelectScrapers(NoSite) :
             job.srcs[s] \in {"idle", "waiting", "creating", "scraping"}}

\* the job's setTimeout callback: reject(new Error(`${jobName} timed out ..`))
TimerFire(j) ==
    LET job == jobs[j]
    IN  /\ j \in DOMAIN jobs
        /\ job.rw = "racing"
        /\ SetJob(j, Catch([job EXCEPT !.timedOut = TRUE,
                                       !.pending = Unfinished(job)],
                           TimeoutMessage(job.kind)))
        /\ last' = NoCall
        /\ UNCHANGED <<store, snapshots, now, raceVars, scrapeVars, browser,
                       launched, connected, runLog>>

\* await browser.close().catch(() => {}) settles; browser = null; finally
CloseDone(j, ok) ==
    LET job == jobs[j]
    IN  /\ j \in DOMAIN jobs
        /\ job.rw = "closing"
        /\ connected' = IF ok THEN connected \ {job.closed} ELSE connected
        /\ browser' = 0
        /\ SetJob(j, [job EXCEPT !.rw = "ended"])
        /\ last' = NoCall
        /\ UNCHANGED <<store, snapshots, now, raceVars, scrapeVars, launched,
                       runLog>>

\* a browser process dies: browser.on('disconnected', () => { browser = null })
Disconnect(b) ==
    /\ b \in connected
    /\ connected' = connected \ {b}
    /\ browser' = 0
    /\ last' = NoCall
    /\ UNCHANGED <<store, snapshots, now, raceVars, scrapeVars, isRunning,
                   launched, jobs, runLog>>

\* the service after main() launched the browser, at some clock reading
Init ==
    /\ InitService
    /\ store = <<>>
    /\ snapshots = <<>>
    /\ now \in 0..MaxClock
    /\ last = NoCall
    /\ runs = <<>>
    /\ scr = NoScrape
    /\ orch = NoInvocation

Next ==
    \/ \E jobName \in JobNames : runWithLock(jobName)
    \/ \E j \in 1..Len(jobs), ok \in BOOLEAN : Launch(j, ok)
    \/ \E j \in 1..Len(jobs) : Select(j)
    \/ \E j \in 1..Len(jobs), s \in RegistrySlugs : CreateContext(j, s)
    \/ \E j \in 1..Len(jobs), s \in RegistrySlugs, out \in ScrapeOutcomes :
          RunScraper(j, s, out)
    \/ \E j \in 1..Len(jobs), s \in RegistrySlugs : CloseContext(j, s)
    \/ \E j \in 1..Len(jobs) : MarkStep(j)
    \/ \E j \in 1..Len(jobs) : SnapshotStep(j)
    \/ \E j \in 1..Len(jobs) : TimerFire(j)
    \/ \E j \in 1..Len(jobs), ok \in BOOLEAN : CloseDone(j, ok)
    \/ \E b \in 1..MaxBrowsers : Disconnect(b)

Spec == Init /\ [][Next]_vars

\* The event loop runs every timer callback that is due, and browser.close()
\* settles (Playwright kills a process that does not exit); nothing makes a
\* job body go on.
FairSpec ==
    /\ Spec
    /\ \A j \in 1..MaxJobs :
          /\ WF_vars(TimerFire(j))
          /\ WF_vars(\E ok \in BOOLEAN : CloseDone(j, ok))

\* a race that a reject reaches even after it has settled
RejectRaceSettledToo(job, msg) == Catch(job, msg)

\* reject(error) on a promise passed to Promise.race: the race takes the
\* rejection only while it is pending
RejectRace(job, msg) ==
    IF job.rw = "racing" THEN Catch(job, msg) ELSE job

LateTimer == [op |-> "timer"]

\* the setTimeout callback of a job whose race the body has settled: the
\* timer was not cleared, so it still fires
LateTimerFire(j) ==
    LET job == jobs[j]
    IN  /\ j \in DOMAIN jobs
        /\ job.rw # "racing"
        /\ ~job.timedOut
        /\ SetJob(j, RejectRace(job, TimeoutMessage(job.kind)))
        /\ last' = LateTimer
        /\ UNCHANGED <<store, snapshots, now, raceVars, scrapeVars, browser,
                       launched, connected, runLog>>

\* the service with the timers of finished jobs firing
NextTimers ==
    \/ Next
    \/ \E j \in 1..Len(jobs) : LateTimerFire(j)

SpecTimers == Init /\ [][NextTimers]_vars

-----------------------------------------------------------------------------
(* Properties of the service and of the orchestrator *)

\* the body of a job is in progress: fn() has not settled, or a scraper
\* callback it started is still running
BodyInProgress(job) ==
    job.pc \notin {"returned", "threw"} \/ InFlight(job) # {}

\* the invocation of runAllScrapers a job made is over
InvocationOver(job) ==
    /\ job.kind # "Daily Cleanup"
    /\ \E s \in RegistrySlugs : job.srcs[s] # "idle"
    /\ ~BodyInProgress(job)

\* the Run Log rows of one source written by one invocation
RowsOf(j, s) == {i \in 1..Len(runLog) :
                    runLog[i].run = j /\ runLog[i].site_id = s}

\* C1: at most one job body started through runWithLock is in progress at
\* any time, a job that exceeded its timeout included: no later job starts
\* while the timed-out job's body is still running.
C1_OneBodyAtATime ==
    Cardinality({j \in 1..Len(jobs) : BodyInProgress(jobs[j])}) <= 1

\* C2: an invocation of runAllScrapers that is over has written exactly one
\* Run Log row for each selected source (registry, active, scope) and none
\* for any other source, whatever the outcome of each source.
C2_OneRowPerSelectedSource ==
    \A j \in 1..Len(jobs) :
        InvocationOver(jobs[j]) =>
            \A s \in SiteSlugs :
                Cardinality(RowsOf(j, s)) =
                    IF s \in SelectScrapers(NoSite) THEN 1 ELSE 0

\* C7: a trigger issued while another job holds the lock returns without
\* running its body: no browser is launched, no context opened, no Run Log
\* row written, no record changed, and the lock stays held.
C7_SkipHasNoEffect ==
    [][last'.op = "skipped" =>
          /\ isRunning /\ isRunning'
          /\ UNCHANGED <<browser, launched, connected, jobs, runLog, store,
                         snapshots>>]_vars

\* a trigger was skipped while a job held the lock, its body under way with
\* a scraper at work
C7_Witness ==
    /\ last = Skipped
    /\ isRunning
    /\ \E j \in 1..Len(jobs) :
          jobs[j].rw = "racing" /\ InFlight(jobs[j]) # {}

C9_TimeoutRecyclesBrowser ==
    [][\A j \in DOMAIN jobs :
          LET before == jobs[j]
              after == jobs'[j]
          IN  /\ (before.rw = "racing" /\ after.timedOut /\ browser # 0) =>
                    /\ after.rw = "closing" /\ after.closed = browser
                    /\ isRunning'
              /\ (before.rw # "ended" /\ after.rw = "ended"
                    /\ after.timedOut) =>
                    /\ browser' = 0
                    /\ ~isRunning'
              /\ (before.rw # "ended" /\ after.rw = "ended"
                    /\ ~after.timedOut) =>
                    /\ after.closed = 0
                    /\ UNCHANGED <<browser, connected>>]_vars

\* a job timed out, the browser it used was closed and the handle cleared,
\* and the next job launched a fresh browser
C9_Witness ==
    \E j, k \in 1..Len(jobs) :
        /\ j < k
        /\ jobs[j].rw = "ended" /\ jobs[j].timedOut
        /\ jobs[j].closed # 0 /\ jobs[j].closed \notin connected
        /\ jobs[k].b \notin {0, jobs[j].closed}
        /\ browser = jobs[k].b

\* C10: when a job exceeded its timeout, every selected source that had not
\* finished at that moment is in the Run Log with status failed (never
\* success or partial, never without a row) once the invocation is over.
C10_UnfinishedLoggedFailed ==
    \A j \in 1..Len(jobs) :
        (jobs[j].timedOut /\ InvocationOver(jobs[j])) =>
            \A s \in jobs[j].pending :
                /\ RowsOf(j, s) # {}
                /\ \A i \in RowsOf(j, s) : runLog[i].status = "failed"

\* the jobs that called ensureBrowser
BrowserJobs == {j \in 1..Len(jobs) : jobs[j].kind # "Daily Cleanup"}

\* no browser has disconnected and no job has closed one
NeverDisconnected ==
    /\ Cardinality(connected) = launched
    /\ \A j \in 1..Len(jobs) : jobs[j].closed = 0

\* C11: ensureBrowser returns a connected browser.  Called with a cached
\* handle that is connected it returns that handle and launches nothing;
\* called with no handle, or with one that is disconnected, it launches, and
\* what it returns is the new process, connected and cached.  Nothing else
\* launches a browser, so as long as no browser has disconnected or been
\* closed every job has used the one process main() launched.
C11_EnsureBrowserReusesOrLaunches ==
    [][
        /\ \A j \in DOMAIN jobs' :
              LET after == jobs'[j]
                  called == j \notin DOMAIN jobs /\ after.kind # "Daily Cleanup"
                  cached == browser # 0 /\ browser \in connected
                  launchDone == /\ j \in DOMAIN jobs
                                /\ jobs[j].pc = "launching"
                                /\ after.pc = "selecting"
              IN  /\ (called /\ cached) =>
                        /\ after.pc = "selecting"
                        /\ after.b = browser /\ after.b \in connected'
                        /\ UNCHANGED <<browser, launched, connected>>
                  /\ (called /\ ~cached) =>
                        /\ after.pc = "launching" /\ after.b = 0
                  /\ launchDone =>
                        /\ launched' = launched + 1
                        /\ after.b = launched' /\ after.b \notin connected
                        /\ after.b \in connected' /\ browser' = after.b
        /\ launched' # launched =>
              \E k \in DOMAIN jobs :
                  jobs[k].pc = "launching" /\ jobs'[k].pc = "selecting"
        /\ NeverDisconnected' =>
              /\ launched' = 1
              /\ \A k \in BrowserJobs' : jobs'[k].b = 1
    ]_vars

\* two jobs, one after the other with no disconnection, were both given the
\* browser main() launched: nothing else was launched
C11_Witness ==
    \E j, k \in BrowserJobs :
        /\ j < k
        /\ jobs[j].pc = "returned" /\ jobs[j].rw = "ended"
        /\ jobs[j].b = 1 /\ jobs[k].b = 1
        /\ launched = 1 /\ connected = {1}

\* C13: a source whose listing page could not be loaded returns no items,
\* so nothing is persisted for it, and the Run Log row written for it has
\* status failed and zero items, in full mode and in quick mode.
C13_ListingFailureLoggedFailed ==
    [][(/\ Len(runLog') = Len(runLog) + 1
        /\ runLog'[Len(runLog')].error_message = ListingError) =>
          /\ runLog'[Len(runLog')].status = "failed"
          /\ runLog'[Len(runLog')].items_found = 0
          /\ store' = store]_vars

\* C28: when the timer of a job whose body completed or failed before the
\* timeout fires, nothing changes: the browser stays open, the cached handle
\* and the lock keep their values, and every job, a different one that is
\* running included, is where it was.
C28_LateTimerHasNoEffect ==
    [][last' = LateTimer =>
          /\ browser' = browser
          /\ connected' = connected
          /\ launched' = launched
          /\ isRunning' = isRunning
          /\ jobs' = jobs
          /\ runLog' = runLog
          /\ store' = store
          /\ snapshots' = snapshots]_vars

\* the timer of the first job, whose body failed, has fired while the
\* second job is running with the browser open
C28_Witness ==
    /\ last = LateTimer
    /\ Len(jobs) = 2
    /\ jobs[1].rw = "ended" /\ jobs[1].pc = "threw" /\ ~jobs[1].timedOut
    /\ jobs[2].rw = "racing"
    /\ isRunning
    /\ browser # 0

\* C29: a cached browser handle that is not null is the browser launched
\* last, and the end of the connection of an earlier browser leaves the
\* handle of a browser launched after it as it is.
C29_HandleIsLatestBrowser ==
    [][/\ browser' # 0 => browser' = launched'
       /\ \A b \in connected \ connected' :
             (browser # 0 /\ b < browser) => browser' = browser]_vars

-----------------------------------------------------------------------------
(* cleanupExpiredRaffles run on its own, sweep after sweep as the clock    *)
(* advances: SpecCleanup                                                   *)

MaxSweepClock == 2     \* the clock of the sweeps stops after this many ticks
MaxSweepRows == 4      \* rows the raffle_snapshots table can hold here

\* a raffle that ends one tick after the scrape: ending soon when scraped
RaffleB4 == Raffle("b", TitleCash, 100, 100, 10, NULL, 1)

\* raffles the sweeps meet: ended at the time of the scrape, sold out, without
\* an end date, ending soon
SweepRaffles == {ServiceRaffle, RaffleA2, RaffleB1, RaffleB4}

\* the raffles table as full scrapes at clock 0 leave it
SweepStores ==
    {persistScrapeResult(<<>>, [siteSlug |-> "dream-car-giveaways",
                                raffles |-> r], 0).store :
        r \in SeqsUpTo(SweepRaffles, MaxResultLen)}

Swept == [op |-> "cleanup"]

\* cleanupExpiredRaffles(): the update, the select and the insert
CleanupSweep ==
    LET marked == MarkDrawn(store, now)
        taken == SnapshotRows(marked, 1)
    IN  /\ Len(snapshots) + Len(taken) <= MaxSweepRows
        /\ store' = marked
        /\ snapshots' = snapshots \o taken
        /\ last' = Swept
        /\ UNCHANGED <<now, raceVars, serviceVars, scrapeVars>>

\* time passes between two sweeps
SweepTick ==
    /\ now < MaxSweepClock
    /\ now' = now + 1
    /\ last' = NoCall
    /\ UNCHANGED <<store, snapshots, raceVars, serviceVars, scrapeVars>>

InitCleanup ==
    /\ store \in SweepStores
    /\ snapshots = <<>>
    /\ now = 0
    /\ last = NoCall
    /\ InitService
    /\ runs = <<>>
    /\ scr = NoScrape
    /\ orch = NoInvocation

NextCleanup ==
    \/ CleanupSweep
    \/ SweepTick

SpecCleanup == InitCleanup /\ [][NextCleanup]_vars

\* the record is open (active or ending_soon)
Open(row) == row.status \in {"active", "ending_soon"}

\* the record's end date is in the past
Ended(row, clock) == row.end_date # NULL /\ row.end_date < clock

-----------------------------------------------------------------------------
(* One scraper.scrape(context) call, a detail visit per step: SpecScrape   *)
(* (elite-competitions.ts, dream-car-giveaways.ts, seven-days-performance) *)

MaxCards == 3          \* cards the listing page yields

Strategies == {"elite-competitions", "dream-car-giveaways",
               "7-days-performance"}

\* scrape() races each detail visit against DETAIL_PAGE_TIMEOUT_MS
HasItemTimeout(strategy) == strategy = "elite-competitions"

\* the catch block of the loop pushes buildRaffleFromCard(card)
FallbackOnError(strategy) == strategy = "elite-competitions"

\* listing cards: an external identifier and a price in pence, if shown
CardA == [externalId |-> "a", price |-> 150]
CardB == [externalId |-> "b", price |-> NULL]
Cards == {CardA, CardB}

\* buildRaffleFromCard(card): <<record>>, or <<>> for null
buildRaffleFromCard(strategy, card) ==
    IF strategy = "elite-competitions"
    THEN IF card.externalId = "" THEN <<>>
         ELSE <<[externalId |-> card.externalId, ticketPrice |-> card.price,
                 from |-> "card"]>>
    ELSE IF card.price # NULL /\ card.price <= 0 THEN <<>>
         ELSE <<[externalId |-> card.externalId, ticketPrice |-> card.price,
                 from |-> "card"]>>

\* how one detail visit ends: the page is read, navigateWithRetry gives up,
\* reading the page throws, or the item timer wins the race
DetailOutcomes == {"ok", "navfail", "throws", "timeout"}

\* scrapeDetailPage(.., card) when it returns: <<record>>, or <<>> for null
scrapeDetailPage(strategy, card, outcome) ==
    IF outcome = "navfail" THEN buildRaffleFromCard(strategy, card)
    ELSE IF strategy = "elite-competitions"
    THEN IF card.externalId = "" THEN <<>>
         ELSE <<[externalId |-> card.externalId, ticketPrice |-> card.price,
                 from |-> "detail"]>>
    ELSE IF card.price # NULL /\ card.price <= 0 THEN <<>>
         ELSE <<[externalId |-> card.externalId, ticketPrice |-> card.price,
                 from |-> "detail"]>>

\* scrapeListingPage returns the cards
Listing(strategy, cards) ==
    /\ scr.pc = "idle"
    /\ scr' = [pc |-> "detail", strategy |-> strategy, cards |-> cards,
               found |-> cards, visits |-> <<>>, raffles |-> <<>>,
               errors |-> <<>>, running |-> 0]
    /\ UNCHANGED <<persistVars, raceVars, serviceVars, orch>>

\* scrapeListingPage throws: the outer catch records the error
ListingFails(strategy) ==
    /\ scr.pc = "idle"
    /\ scr' = [pc |-> "done", strategy |-> strategy, cards |-> <<>>,
               found |-> <<>>, visits |-> <<>>, raffles |-> <<>>,
               errors |-> <<ListingError>>, running |-> 0]
    /\ UNCHANGED <<persistVars, raceVars, serviceVars, orch>>

\* one iteration of the loop over the cards; an error message names the
\* item by its slug, visits keeps how each visit ended.  Promise.race does
\* not cancel the loser: when the item timer wins, the scrapeDetailPage
\* call goes on with its page open, and running counts such calls
Detail(outcome) ==
    LET card == Head(scr.cards)
        threw == outcome \in {"throws", "timeout"}
        pushed == IF threw
                  THEN IF FallbackOnError(scr.strategy)
                       THEN buildRaffleFromCard(scr.strategy, card) ELSE <<>>
                  ELSE scrapeDetailPage(scr.strategy, card, outcome)
    IN  /\ scr.pc = "detail"
        /\ scr.cards # <<>>
        /\ outcome = "timeout" => HasItemTimeout(scr.strategy)
        /\ scr' = [scr EXCEPT !.cards = Tail(@),
                              !.visits = Append(@, outcome),
                              !.raffles = @ \o pushed,
                              !.errors = IF threw
                                         THEN Append(@, card.externalId)
                                         ELSE @,
                              !.running = IF outcome = "timeout"
                                          THEN @ + 1 ELSE @]
        /\ UNCHANGED <<persistVars, raceVars, serviceVars, orch>>

\* a scrapeDetailPage call the timer has left behind comes to its end
\* (finally { await page.close() })
AbandonedVisitEnds ==
    /\ scr.pc \in {"detail", "done"}
    /\ scr.running > 0
    /\ scr' = [scr EXCEPT !.running = @ - 1]
    /\ UNCHANGED <<persistVars, raceVars, serviceVars, orch>>

\* await this.scrapeDetailPage(page, detailUrl, card) with no timer raced
\* against it, and a visit that never returns (page.evaluate on a page that
\* stopped responding): the loop stays at this await
DetailHangs ==
    /\ scr.pc = "detail"
    /\ scr.cards # <<>>
    /\ ~HasItemTimeout(scr.strategy)
    /\ scr' = [scr EXCEPT !.pc = "hung"]
    /\ UNCHANGED <<persistVars, raceVars, serviceVars, orch>>

\* return { siteName, siteSlug, raffles, errors, duration }
Return ==
    /\ scr.pc = "detail"
    /\ scr.cards = <<>>
    /\ scr' = [scr EXCEPT !.pc = "done"]
    /\ UNCHANGED <<persistVars, raceVars, serviceVars, orch>>

InitScrape == InitPersist

NextScrape ==
    \/ \E strategy \in Strategies, cards \in SeqsUpTo(Cards, MaxCards) :
          Listing(strategy, cards)
    \/ \E strategy \in Strategies : ListingFails(strategy)
    \/ \E outcome \in DetailOutcomes : Detail(outcome)
    \/ AbandonedVisitEnds
    \/ DetailHangs
    \/ Return

SpecScrape == InitScrape /\ [][NextScrape]_vars

\* C3: for every strategy, a full scrape whose listing phase yields n items
\* (each with a positive or unknown price and an external identifier) returns
\* exactly n records, one per item in order, each a detail record or a
\* fallback record, even when detail visits fail.
C3_OneRecordPerListingItem ==
    scr.pc = "done" =>
        /\ Len(scr.raffles) = Len(scr.found)
        /\ \A i \in 1..Len(scr.raffles) :
              /\ scr.raffles[i].externalId = scr.found[i].externalId
              /\ scr.raffles[i].from \in {"detail", "card"}

\* C12: a detail visit that fails, by the item timeout or by navigation
\* retries running out, adds exactly one entry naming the item to the
\* result's errors, and the fallback record built from the item's card to
\* its raffles.
C12_FailedVisitRecordsError ==
    [][(/\ scr.pc = "detail" /\ scr'.pc = "detail"
        /\ Len(scr'.visits) = Len(scr.visits) + 1
        /\ scr'.visits[Len(scr'.visits)] \in {"timeout", "navfail"}) =>
          /\ scr'.errors = Append(scr.errors, Head(scr.cards).externalId)
          /\ scr'.raffles =
                 scr.raffles \o buildRaffleFromCard(scr.strategy,
                                                    Head(scr.cards))
          /\ buildRaffleFromCard(scr.strategy, Head(scr.cards)) # <<>>]_vars

\* C22: in every strategy's full scrape, a detail visit that never returns
\* is abandoned when the item timeout fires: the item is served by its
\* fallback record and the loop goes on to the next item; the scrape never
\* stays waiting on one detail page.
C22_HungVisitAbandoned ==
    [][(/\ scr.pc = "detail"
        /\ \/ scr'.pc = "hung"
           \/ /\ Len(scr'.visits) = Len(scr.visits) + 1
              /\ scr'.visits[Len(scr'.visits)] = "timeout") =>
          /\ scr'.pc = "detail"
          /\ scr'.cards = Tail(scr.cards)
          /\ scr'.raffles =
                 scr.raffles \o buildRaffleFromCard(scr.strategy,
                                                    Head(scr.cards))
          /\ buildRaffleFromCard(scr.strategy, Head(scr.cards)) # <<>>]_vars

\* C23: within one source's full scrape, detail visits start only after the
\* listing phase has finished, and a visit starts only when no earlier
\* visit of the scrape is still in progress, also after the item timeout
\* has fired for the previous item.
C23_VisitsOneAtATime ==
    [][(scr'.pc # "idle" /\ scr.pc # "idle"
           /\ Len(scr'.visits) > Len(scr.visits)) =>
          /\ scr.pc = "detail"
          /\ scr.found # <<>>
          /\ Len(scr'.visits) = Len(scr.visits) + 1
          /\ scr.running = 0]_vars

-----------------------------------------------------------------------------
(* One runAllScrapers invocation over several sources, one await per       *)
(* step: SpecBatch                                                         *)

MaxSources == 3        \* scrapers left after the filters
MaxWidth == 2          \* the concurrency option

\* the stages of one scraper's callback in batch.map(...)
\* "catching" is logScrapeRun in the catch block, "unwinding" is
\* context.close() in the finally block with an exception of the catch block
\* on its way out
Stages == {"waiting", "creating", "scraping", "persisting", "logging",
           "catching", "closing", "unwinding", "done", "rejected"}

\* the callback is running
Started(o) ==
    {s \in DOMAIN o.srcs :
        o.srcs[s] \in {"creating", "scraping", "persisting", "logging",
                       "catching", "closing", "unwinding"}}

\* scrapers.slice(i, i + concurrency): the scrapers of the batch at index i
Slice(o, i) ==
    {s \in DOMAIN o.srcs : i < s /\ s <= i + o.c}

\* the loop goes to the next batch as soon as one callback has settled
NextBatchEarly(o) ==
    IF o.pc # "batch" THEN o
    ELSE IF o.i + o.c >= Len(o.srcs) THEN
             IF Started(o) = {} THEN [o EXCEPT !.pc = "returned"] ELSE o
    ELSE [o EXCEPT !.i = @ + o.c,
                   !.srcs = [s \in DOMAIN o.srcs |->
                                IF s \in Slice(o, o.i + o.c) THEN "creating"
                                ELSE o.srcs[s]]]

\* await Promise.all(...) resolves once every callback of the batch has: the
\* loop takes the next slice, or runAllScrapers returns
NextBatch(o) ==
    IF o.pc # "batch" \/ Started(o) # {} THEN o
    ELSE IF o.i + o.c >= Len(o.srcs) THEN [o EXCEPT !.pc = "returned"]
    ELSE [o EXCEPT !.i = @ + o.c,
                   !.srcs = [s \in DOMAIN o.srcs |->
                                IF s \in Slice(o, o.i + o.c) THEN "creating"
                                ELSE o.srcs[s]]]

\* a callback rejects: Promise.all rejects at once, runAllScrapers throws,
\* the other callbacks of the batch go on
Reject(o) == IF o.pc = "batch" THEN [o EXCEPT !.pc = "threw"] ELSE o

\* runAllScrapers({concurrency: c}) with n scrapers left after the filters,
\* up to the first batch
Invoke(n, c) ==
    /\ orch.pc = "idle"
    /\ orch' =
          IF n = 0 THEN [pc |-> "returned", c |-> c, i |-> 0, srcs |-> <<>>,
                         ctx |-> <<>>]
          ELSE LET o == [pc |-> "batch", c |-> c, i |-> 0,
                         srcs |-> [s \in 1..n |-> "waiting"],
                         ctx |-> [s \in 1..n |-> "none"]]
               IN  [o EXCEPT !.srcs = [s \in 1..n |->
                                          IF s \in Slice(o, 0) THEN "creating"
                                          ELSE "waiting"]]
    /\ UNCHANGED <<persistVars, raceVars, serviceVars, scr>>

\* the awaits of one callback, in order: createContext, scrape or
\* quickUpdate, the persist call, logScrapeRun, context.close(); after the
\* catch block's logScrapeRun the finally block closes the context, and a
\* close that follows an exception of the catch block ends in the rejection
After(stage) ==
    CASE stage = "creating" -> "scraping"
      [] stage = "scraping" -> "persisting"
      [] stage = "persisting" -> "logging"
      [] stage = "logging" -> "closing"
      [] stage = "catching" -> "closing"
      [] stage = "closing" -> "done"
      [] stage = "unwinding" -> "rejected"

\* a catch block whose exception leaves the callback past the finally block
ThrownNoFinally(stage) ==
    CASE stage \in {"scraping", "persisting", "logging"} -> "catching"
      [] stage \in {"creating", "catching", "closing", "unwinding"} ->
             "rejected"

\* where an await that rejects leads: createContext and context.close() are
\* outside the try block; an exception inside it is caught; an exception
\* of the catch block goes through the finally block
Thrown(stage) ==
    CASE stage \in {"scraping", "persisting", "logging"} -> "catching"
      [] stage = "catching" -> "unwinding"
      [] stage \in {"creating", "closing", "unwinding"} -> "rejected"

\* an await of the callback of scraper s settles.  ctx follows the
\* browsing context of the callback: open once createContext resolved,
\* closed once context.close() resolved, lost when context.close() rejected
Settle(s, ok) ==
    LET stage == orch.srcs[s]
        next == IF ok THEN After(stage) ELSE Thrown(stage)
        context == IF stage = "creating" /\ ok THEN "open"
                   ELSE IF stage \in {"closing", "unwinding"}
                        THEN IF ok THEN "closed" ELSE "lost"
                        ELSE orch.ctx[s]
        o == [orch EXCEPT !.srcs[s] = next, !.ctx[s] = context]
    IN  /\ orch.pc # "idle"
        /\ s \in Started(orch)
        /\ orch' = IF next = "done" THEN NextBatch(o)
                   ELSE IF next = "rejected" THEN Reject(o)
                   ELSE o
        /\ UNCHANGED <<persistVars, raceVars, serviceVars, scr>>

InitBatch == InitPersist

NextBatchStep ==
    \/ \E n \in 0..MaxSources, c \in 1..MaxWidth : Invoke(n, c)
    \/ \E s \in 1..MaxSources, ok \in BOOLEAN : Settle(s, ok)

SpecBatch == InitBatch /\ [][NextBatchStep]_vars

\* the batch a scraper belongs to: the slice that holds it
BatchOf(o, s) == (s - 1) \div o.c

\* the order of the stages of a callback
Rank(stage) ==
    CASE stage = "waiting" -> 0
      [] stage = "creating" -> 1
      [] stage = "scraping" -> 2
      [] stage = "persisting" -> 3
      [] stage = "logging" -> 4
      [] stage = "catching" -> 5
      [] stage \in {"closing", "unwinding"} -> 6
      [] stage \in {"done", "rejected"} -> 7

\* C19: during runAllScrapers with concurrency width c, at most c sources
\* are in progress at any moment; the sources in progress belong to one
\* batch, the slice of c consecutive scrapers the loop is at; no source of a
\* later batch is started before every source of the batches before it has
\* finished, persistence, Run Log write and context close included; no
\* source is started twice, and when runAllScrapers returns every selected
\* source has been through its batch.
C19_BatchesOfWidthC ==
    [][orch'.pc # "idle" =>
          LET o == orch'
          IN  /\ Cardinality(Started(o)) <= o.c
              /\ \A s, t \in DOMAIN o.srcs :
                    (BatchOf(o, s) < BatchOf(o, t)
                        /\ o.srcs[t] # "waiting") => o.srcs[s] = "done"
              /\ \A s \in Started(o) : BatchOf(o, s) * o.c = o.i
              /\ orch.pc # "idle" =>
                    \A s \in DOMAIN o.srcs :
                        Rank(orch.srcs[s]) <= Rank(o.srcs[s])
              /\ o.pc = "returned" =>
                    \A s \in DOMAIN o.srcs : o.srcs[s] = "done"]_vars

\* three sources at width two: the first batch of two has finished, the
\* third source is at work alone in the second batch
C19_Witness ==
    /\ orch.pc = "batch"
    /\ orch.c = 2
    /\ Len(orch.srcs) = 3
    /\ orch.srcs[1] = "done" /\ orch.srcs[2] = "done"
    /\ orch.srcs[3] = "persisting"

\* C30: every browsing context runAllScrapers opens belongs to the callback
\* of one source, which is running while the context is open; when that
\* callback has ended the context is closed, whether the scrape, the
\* persist call or logScrapeRun returned or threw; when runAllScrapers has
\* returned no context is open.
C30_ContextsClosed ==
    orch.pc # "idle" =>
        /\ DOMAIN orch.ctx = DOMAIN orch.srcs
        /\ \A s \in DOMAIN orch.srcs :
              /\ orch.ctx[s] = "open" <=>
                    orch.srcs[s] \in {"scraping", "persisting", "logging",
                                      "catching", "closing", "unwinding"}
              /\ orch.srcs[s] = "done" => orch.ctx[s] = "closed"
              /\ orch.srcs[s] = "rejected" =>
                    orch.ctx[s] \in {"none", "closed", "lost"}
              /\ orch.pc = "returned" => orch.ctx[s] = "closed"

\* two sources at width two: the first one's scrape and then its
\* logScrapeRun in the catch block threw, its context was closed on the way
\* out and runAllScrapers threw; the second is still scraping
C30_Witness ==
    /\ orch.pc = "threw"
    /\ Len(orch.srcs) = 2
    /\ orch.srcs[1] = "rejected" /\ orch.ctx[1] = "closed"
    /\ orch.srcs[2] = "scraping" /\ orch.ctx[2] = "open"

-----------------------------------------------------------------------------
(* classifyPrizeType on every combination of keyword groups: SpecClassify  *)

\* INSTANT_WIN_PATTERNS, NOT_REAL_VEHICLE_PATTERNS and the lists of
\* PRIZE_TYPE_RULES: what a title can contain
KeywordGroups == {"instant", "notreal", "car", "motorcycle", "house",
                  "watch", "tech", "holiday", "cash"}

AllTitles ==
    {[kw |-> k, orCash |-> NULL, plusCash |-> NULL] : k \in SUBSET KeywordGroups}

\* a title comes in
InitClassify ==
    /\ InitService
    /\ store = <<>>
    /\ snapshots = <<>>
    /\ now = 0
    /\ last \in {[op |-> "title", title |-> t, prizeType |-> "none"] :
                    t \in AllTitles}
    /\ runs = <<>>
    /\ scr = NoScrape
    /\ orch = NoInvocation

\* const prizeType = classifyPrizeType(raffle.title)
Classify ==
    /\ last.op = "title"
    /\ last' = [last EXCEPT !.op = "classified",
                            !.prizeType = classifyPrizeType(last.title)]
    /\ UNCHANGED <<store, snapshots, now, raceVars, serviceVars, scrapeVars>>

\* the next title
NextTitle ==
    /\ last.op = "classified"
    /\ \E t \in AllTitles :
          last' = [op |-> "title", title |-> t, prizeType |-> "none"]
    /\ UNCHANGED <<store, snapshots, now, raceVars, serviceVars, scrapeVars>>

NextClassify ==
    \/ Classify
    \/ NextTitle

SpecClassify == InitClassify /\ [][NextClassify]_vars

\* the rules in the order the claim gives them, and what each returns
RuleOrder == <<"instant", "car", "motorcycle", "house", "watch", "tech",
               "holiday", "cash">>

RuleResult(g) == IF g = "instant" THEN "other" ELSE g

\* the rule of group g matches the title
RuleMatches(g, kw) ==
    g \in kw /\ (g \in {"car", "motorcycle"} => "notreal" \notin kw)

\* C20: classifyPrizeType returns the result of the first rule that matches,
\* in the order instant-win (other), car and motorcycle (unless a
\* not-a-real-vehicle phrase is present), house, watch, tech, holiday, cash,
\* and other when none matches.  So a title with a car keyword and a cash
\* keyword (and neither an instant-win pattern nor a not-a-real-vehicle
\* phrase) is car, and a title with an instant-win pattern is neither cash
\* nor car.
C20_FirstMatchingRule ==
    last.op = "classified" =>
        LET kw == last.title.kw
            matching == {i \in 1..Len(RuleOrder) : RuleMatches(RuleOrder[i], kw)}
            first == CHOOSE i \in matching : \A k \in matching : i <= k
        IN  /\ last.prizeType =
                  IF matching = {} THEN "other"
                  ELSE RuleResult(RuleOrder[first])
            /\ ({"car", "cash"} \subseteq kw /\ "instant" \notin kw
                    /\ "notreal" \notin kw) => last.prizeType = "car"
            /\ "instant" \in kw => last.prizeType \notin {"cash", "car"}

\* a title with a car keyword, a cash keyword and a watch keyword was
\* classified car
C20_Witness ==
    /\ last.op = "classified"
    /\ last.title.kw = {"car", "cash", "watch"}
    /\ last.prizeType = "car"

-----------------------------------------------------------------------------
(* calculateRaffleMetrics on present, absent, zero and negative inputs:    *)
(* SpecMetrics                                                             *)

\* the object persistScrapeResult passes, each field number | null
MetricInputs ==
    [prizeValue : {NULL, 0, 5000},
     cashAlternative : {NULL, 0, 6000},
     totalTickets : {NULL, -1, 0, 100},
     ticketPrice : {NULL, -50, 0, 150},
     ticketsSold : {NULL, 0, 10, 150},
     endDate : {NULL, 1}]

\* a record comes in; metrics holds the input until it is computed
InitMetrics ==
    /\ InitService
    /\ store = <<>>
    /\ snapshots = <<>>
    /\ now = 0
    /\ last \in {[op |-> "data", data |-> d, metrics |-> d] :
                    d \in MetricInputs}
    /\ runs = <<>>
    /\ scr = NoScrape
    /\ orch = NoInvocation

\* const metrics = calculateRaffleMetrics({...})
Calculate ==
    /\ last.op = "data"
    /\ last' = [last EXCEPT !.op = "metrics",
                            !.metrics = calculateRaffleMetrics(last.data, now)]
    /\ UNCHANGED <<store, snapshots, now, raceVars, serviceVars, scrapeVars>>

SpecMetrics == InitMetrics /\ [][Calculate]_vars

\* C21: calculateRaffleMetrics returns for every input; when total tickets
\* is unknown or not positive, odds ratio, expected value and percent sold
\* are null (not zero); value per pound is (prize value, or cash
\* alternative when prize value is absent) / ticket price whenever that
\* numerator and the ticket price are present and positive.
C21_MetricsNullPropagation ==
    last.op = "metrics" =>
        LET d == last.data
            m == last.metrics
            numerator == IF d.prizeValue # NULL THEN d.prizeValue
                         ELSE d.cashAlternative
        IN  /\ (d.totalTickets = NULL \/ d.totalTickets <= 0) =>
                  /\ m.odds_ratio = NULL
                  /\ m.expected_value = NULL
                  /\ m.percent_sold = NULL
            /\ (/\ numerator # NULL /\ numerator > 0
                /\ d.ticketPrice # NULL /\ d.ticketPrice > 0) =>
                  m.value_per_pound = RoundDiv(numerator * 100, d.ticketPrice)

\* total tickets unknown, no prize value, a cash alternative and a ticket
\* price: value per pound is computed from the cash alternative, the three
\* others are null
C21_Witness ==
    /\ last.op = "metrics"
    /\ last.data.totalTickets = NULL
    /\ last.data.prizeValue = NULL
    /\ last.data.cashAlternative = 6000
    /\ last.data.ticketPrice = 150
    /\ last.metrics.value_per_pound = 4000
    /\ last.metrics.odds_ratio = NULL
    /\ last.metrics.expected_value = NULL
    /\ last.metrics.percent_sold = NULL

-----------------------------------------------------------------------------
(* BaseScraper.navigateWithRetry, one await per step: SpecNavigate         *)

MaxRetriesOption == 4  \* the largest options.maxRetries a caller passes

\* navigateWithRetry(page, url, options): the defaults are filled in and
\* the loop is entered with attempt = 1
Navigate(maxRetries, waitUntil) ==
    LET max == IF maxRetries = NULL THEN 3 ELSE maxRetries
    IN  /\ scr.pc = "idle"
        /\ scr' = [pc |-> IF 1 <= max THEN "goto" ELSE "returned",
                   options |-> [maxRetries |-> maxRetries,
                                waitUntil |-> waitUntil],
                   maxRetries |-> max,
                   waitUntil |-> IF waitUntil = "undefined"
                                 THEN "domcontentloaded" ELSE waitUntil,
                   attempt |-> 1, gotos |-> 0, waits |-> <<>>,
                   result |-> IF 1 <= max THEN "pending" ELSE "false"]
        /\ UNCHANGED <<persistVars, raceVars, serviceVars, orch>>

\* await page.goto(...) resolves: return true
GotoSucceeds ==
    /\ scr.pc = "goto"
    /\ scr' = [scr EXCEPT !.pc = "returned", !.gotos = @ + 1,
                          !.result = "true"]
    /\ UNCHANGED <<persistVars, raceVars, serviceVars, orch>>

\* a failing goto that is followed by a delay whatever the attempt is
GotoFailsAlwaysWaits ==
    /\ scr.pc = "goto"
    /\ scr' = [scr EXCEPT !.gotos = @ + 1,
                          !.waits = Append(@, 2000 * scr.attempt),
                          !.pc = IF scr.attempt < scr.maxRetries
                                 THEN "delay" ELSE "returned",
                          !.attempt = IF scr.attempt < scr.maxRetries
                                      THEN @ ELSE @ + 1,
                          !.result = IF scr.attempt < scr.maxRetries
                                     THEN @ ELSE "false"]
    /\ UNCHANGED <<persistVars, raceVars, serviceVars, orch>>

\* await page.goto(...) rejects: the catch block starts the delay when
\* another attempt follows; after the last attempt the loop ends and the
\* function returns false
GotoFails ==
    /\ scr.pc = "goto"
    /\ IF scr.attempt < scr.maxRetries
       THEN scr' = [scr EXCEPT !.pc = "delay", !.gotos = @ + 1,
                               !.waits = Append(@, 2000 * scr.attempt)]
       ELSE scr' = [scr EXCEPT !.pc = "returned", !.gotos = @ + 1,
                               !.attempt = @ + 1, !.result = "false"]
    /\ UNCHANGED <<persistVars, raceVars, serviceVars, orch>>

\* await this.delay(2000 * attempt) resolves: attempt++
DelayEnds ==
    /\ scr.pc = "delay"
    /\ scr' = [scr EXCEPT !.pc = "goto", !.attempt = @ + 1]
    /\ UNCHANGED <<persistVars, raceVars, serviceVars, orch>>

NextNavigate ==
    \/ \E maxRetries \in {NULL} \cup 0..MaxRetriesOption,
          waitUntil \in {"undefined", "load", "domcontentloaded",
                         "networkidle"} :
          Navigate(maxRetries, waitUntil)
    \/ GotoSucceeds
    \/ GotoFails
    \/ DelayEnds

SpecNavigate == InitPersist /\ [][NextNavigate]_vars

\* C24: navigateWithRetry calls page.goto at most maxRetries times (3 by
\* default); it returns true at the first goto that succeeds and false when
\* every one of the maxRetries attempts has failed, and throws in no case;
\* it has waited 2000 ms * k after the k-th failed attempt exactly when
\* another attempt followed.
C24_BoundedRetries ==
    scr.pc \in {"goto", "delay", "returned"} =>
        LET max == IF scr.options.maxRetries = NULL THEN 3
                   ELSE scr.options.maxRetries
            failed == IF scr.result = "true" THEN scr.gotos - 1 ELSE scr.gotos
        IN  /\ scr.gotos <= max
            /\ scr.result \in {"pending", "true", "false"}
            /\ scr.pc = "returned" <=> scr.result # "pending"
            /\ scr.result = "false" => scr.gotos = max
            /\ scr.result = "true" => scr.gotos >= 1
            /\ scr.pc = "goto" => Len(scr.waits) = failed
            /\ scr.pc = "delay" => Len(scr.waits) = failed /\ failed < max
            /\ scr.result = "true" => Len(scr.waits) = failed
            /\ scr.result = "false" =>
                  Len(scr.waits) = IF max >= 1 THEN max - 1 ELSE 0
            /\ \A k \in 1..Len(scr.waits) : scr.waits[k] = 2000 * k

\* the default three attempts have all failed: 2000 ms and 4000 ms were
\* waited, nothing after the third
C24_Witness ==
    /\ scr.pc = "returned"
    /\ scr.options.maxRetries = NULL
    /\ scr.result = "false"
    /\ scr.gotos = 3
    /\ scr.waits = <<2000, 4000>>

-----------------------------------------------------------------------------
(* Listing links to cards to external identifiers: SpecDedupe              *)
(* A URL is the sequence url.split('/') yields after the host, a slug the  *)
(* sequence of the segments it is made of.                                 *)

MaxLinks == 3          \* links the listing page yields

\* a[href*="/competitions/"] links: a page, the same page with a trailing
\* slash, another page, and a page of the same name one level down
ListingUrls == {<<"competitions", "bmw-m3">>,
                <<"competitions", "bmw-m3", "">>,
                <<"competitions", "audi-rs3">>,
                <<"competitions", "cars", "audi-rs3">>}

\* parts[parts.length - 1] || parts[parts.length - 2] || url
extractSlugFromUrl(parts) ==
    IF parts[Len(parts)] # "" THEN <<parts[Len(parts)]>>
    ELSE IF Len(parts) >= 2 /\ parts[Len(parts) - 1] # ""
         THEN <<parts[Len(parts) - 1]>>
         ELSE parts

\* Array.from(byUrl.values()): one card per URL, in the order of the first
\* occurrence
RECURSIVE processRawCards(_, _)
processRawCards(links, byUrl) ==
    IF links = <<>> THEN byUrl
    ELSE processRawCards(Tail(links),
                         IF \E i \in DOMAIN byUrl : byUrl[i] = Head(links)
                         THEN byUrl ELSE Append(byUrl, Head(links)))

\* page.evaluate returns the raw links
InitDedupe ==
    /\ InitService
    /\ store = <<>>
    /\ snapshots = <<>>
    /\ now = 0
    /\ last \in {[op |-> "links", links |-> l, cards |-> <<>>, ids |-> <<>>] :
                    l \in SeqsUpTo(ListingUrls, MaxLinks)}
    /\ runs = <<>>
    /\ scr = NoScrape
    /\ orch = NoInvocation

\* processRawCards(rawLinks), then extractSlugFromUrl(card.url) per card
ScrapeListing ==
    /\ last.op = "links"
    /\ LET cards == processRawCards(last.links, <<>>)
       IN  last' = [last EXCEPT
                       !.op = "cards",
                       !.cards = cards,
                       !.ids = [i \in DOMAIN cards |->
                                   extractSlugFromUrl(cards[i])]]
    /\ UNCHANGED <<store, snapshots, now, raceVars, serviceVars, scrapeVars>>

SpecDedupe == InitDedupe /\ [][ScrapeListing]_vars

\* C25: the cards left after de-duplication by URL have pairwise distinct
\* external identifiers (extractSlugFromUrl of their URLs), for every list
\* of listing links.
C25_ExternalIdsDistinct ==
    last.op = "cards" =>
        \A i, j \in DOMAIN last.ids : i # j => last.ids[i] # last.ids[j]

-----------------------------------------------------------------------------
(* Full scrapes, quick updates and cleanup sweeps on one raffles table as  *)
(* the clock advances: SpecLifecycle                                       *)

\* what the scrapers of one site return while a raffle is listed: the
\* record of a full scrape, the listing-page update of a quick one
LifecycleResults ==
    {[siteSlug |-> "dream-car-giveaways", raffles |-> <<r>>] :
        r \in {ServiceRaffle, RaffleA1, RaffleB3}}

LifecycleUpdates ==
    {[siteSlug |-> "dream-car-giveaways", updates |-> <<u>>] :
        u \in {UpdateA1, UpdateB1}}

NextLifecycle ==
    \/ \E result \in LifecycleResults : PersistFull(result)
    \/ \E result \in LifecycleUpdates : PersistQuick(result)
    \/ CleanupSweep
    \/ SweepTick

SpecLifecycle == InitPersist /\ [][NextLifecycle]_vars

\* C27: a record the cleanup sweep has marked drawn stays drawn: no later
\* persistFull, persistQuick or sweep gives it another status.
C27_DrawnIsFinal ==
    [][\A i \in DOMAIN store :
          store[i].status = "drawn" =>
              /\ i \in DOMAIN store'
              /\ store'[i].status = "drawn"]_vars

=============================================================================
